---- MODULE Spec2Model ----
(***************************************************************************)
(* Model of the CSV-to-sheet pipeline of app.py and app_standalone.py:     *)
(* the column letter/index codec, clean_csv (normalise, filter, drop       *)
(* ranges), the per-file loop, the merge/sort block and the publication    *)
(* of the merged table to the destination.                                 *)
(*                                                                         *)
(* A column letter is a sequence of character codes (ord), a cell is NA,   *)
(* a string or an integer, a table is a record of its column labels, its   *)
(* rows (sequences aligned with the labels) and its attrs.                 *)
(***************************************************************************)
EXTENDS Integers, Sequences, FiniteSets, TLC

VARIABLES
    step,        \* codec and clean_csv runs: "input", "mid" or "done"
    c_kind,      \* codec: "letter" (letter -> index -> letter) or "index"
    c_letter,    \* codec: the letter given, or the letter computed from c_index
    c_index,     \* codec: the index given, or the index computed from c_letter
    c_back_letter, \* codec: index_to_col_letter of the computed index
    c_back_index,  \* codec: col_letter_to_index of the computed letter
    c_raised,    \* codec: the call ended with an exception and returned nothing
    raw,         \* clean_csv: the frame returned by pd.read_csv
    ranges,      \* clean_csv: the drop ranges in force
    normalized,  \* clean_csv: the frame after padding and renaming
    cleaned,     \* clean_csv: the frame returned
    variant,     \* "app" (app.py) or "standalone" (app_standalone.py)
    csv_files,   \* the extracted CSV files, in listing order
    pc,          \* position of the run in the script
    idx,         \* number of files the per-file loop has handled
    all_data,    \* list of the non-empty cleaned frames
    warnings,    \* positions of the files skipped with a warning
    merged,      \* the merged frame
    sink,        \* content of the destination (worksheet or output file)
    messages     \* terminal messages shown to the user, in order

codecVars == <<c_kind, c_letter, c_index, c_back_letter, c_back_index, c_raised>>
cleanVars == <<raw, ranges, normalized, cleaned>>
runVars == <<variant, csv_files, pc, idx, all_data, warnings, merged, sink, messages>>

vars == <<step, codecVars, cleanVars, runVars>>

-----------------------------------------------------------------------------
(* Bounds *)

MaxLen == 2          \* longest letter string given to the codec
MaxIdx == 710        \* largest index given to the codec
MaxRows == 2         \* most rows of a raw frame given to clean_csv alone
MaxFiles == 3        \* most CSV files in one archive

-----------------------------------------------------------------------------
(* Values *)

\* A cell: missing, a string or an integer (one record shape for all three)
NA == [t |-> "na", s |-> "", n |-> 0]
StrCell(x) == [t |-> "str", s |-> x, n |-> 0]
IntCell(k) == [t |-> "int", s |-> "", n |-> k]

isna(c) == c.t = "na"

\* A DataFrame: column labels, rows aligned with the labels, and attrs
\* (attrs["letter_to_header"] as the list of its (key, value) items)
NoFrame == [cols |-> <<>>, rows |-> <<>>, attrs |-> <<>>]

OrdA == 65
OrdZ == 90
OrdLowerA == 97
OrdLowerZ == 122

Min(a, b) == IF a < b THEN a ELSE b

RECURSIVE MaxOfSeq(_)
MaxOfSeq(s) ==
    IF Len(s) = 1 THEN s[1]
    ELSE LET m == MaxOfSeq(Tail(s)) IN IF s[1] > m THEN s[1] ELSE m

\* str.upper() on one character
UpperCh(ch) == IF ch >= OrdLowerA /\ ch <= OrdLowerZ THEN ch - 32 ELSE ch

Upper(s) == [i \in 1..Len(s) |-> UpperCh(s[i])]

-----------------------------------------------------------------------------
(* Letter/index codec *)

RECURSIVE LetterFold(_, _)
LetterFold(letter, result) ==
    IF letter = <<>> THEN result
    ELSE LetterFold(Tail(letter), result * 26 + (Head(letter) - OrdA + 1))

col_letter_to_index(letter) == LetterFold(Upper(letter), 0) - 1

\* variant of the loop that divides n instead of n - 1
RECURSIVE IndexLoopPlainDivmod(_, _)
IndexLoopPlainDivmod(n, s) ==
    IF n > 0
    THEN IndexLoopPlainDivmod(n \div 26, <<OrdA + ((n - 1) % 26)>> \o s)
    ELSE s

RECURSIVE IndexLoop(_, _)
IndexLoop(n, s) ==
    IF n > 0
    THEN IndexLoop((n - 1) \div 26, <<OrdA + ((n - 1) % 26)>> \o s)
    ELSE s

index_to_col_letter(i) == IndexLoop(i + 1, <<>>)

-----------------------------------------------------------------------------
(* Configuration *)

FILTER_K_LETTER == <<75>>
FILTER_M_LETTER == <<77>>
FILTER_K_VALUE == "Station"
FILTER_M_VALUE == "SOC 5"
SORT_LETTER == <<88>>
DROP_RANGES_LETTERS ==
    << <<(<<67>>), (<<73>>)>>, <<(<<75>>), (<<77>>)>>, <<(<<79>>), (<<85>>)>>,
       <<(<<89>>), (<<90>>)>>, <<(<<65, 69>>), (<<65, 72>>)>> >>

FilterKIdx == col_letter_to_index(FILTER_K_LETTER)
FilterMIdx == col_letter_to_index(FILTER_M_LETTER)
SortIdx == col_letter_to_index(SORT_LETTER)

needed_idxs ==
    << FilterKIdx, FilterMIdx, SortIdx >>
    \o [r \in 1..Len(DROP_RANGES_LETTERS) |->
            col_letter_to_index(DROP_RANGES_LETTERS[r][2])]

MAX_NEEDED_IDX == MaxOfSeq(needed_idxs)

-----------------------------------------------------------------------------
(* DataFrame helpers *)

Range(f) == {f[i] : i \in DOMAIN f}

Iota(n) == [i \in 1..n |-> i]

\* position of a label among the columns (df[label])
ColPos(cols, label) == CHOOSE p \in 1..Len(cols) : cols[p] = label

Column(df, label) == [r \in 1..Len(df.rows) |-> df.rows[r][ColPos(df.cols, label)]]

\* df[mask]: the rows whose mask entry is TRUE, in order
TakeRows(df, mask) ==
    LET keep == SelectSeq(Iota(Len(df.rows)), LAMBDA r : mask[r])
    IN [df EXCEPT !.rows = [j \in 1..Len(keep) |-> df.rows[keep[j]]]]

\* df.drop(columns=labels, errors="ignore")
DropColumns(df, labels) ==
    LET keep == SelectSeq(Iota(Len(df.cols)), LAMBDA p : df.cols[p] \notin Range(labels))
    IN [df EXCEPT !.cols = [j \in 1..Len(keep) |-> df.cols[keep[j]]],
                  !.rows = [r \in 1..Len(df.rows) |->
                                [j \in 1..Len(keep) |-> df.rows[r][keep[j]]]]]

\* dict.get(key, default) on a list of (key, value) items
RECURSIVE DictGet(_, _, _)
DictGet(items, key, default) ==
    IF items = <<>> THEN default
    ELSE LET last == items[Len(items)]
         IN IF last[1] = key THEN last[2]
            ELSE DictGet(SubSeq(items, 1, Len(items) - 1), key, default)

DictKeys(items) == {items[i][1] : i \in DOMAIN items}

-----------------------------------------------------------------------------
(* clean_csv *)

\* the padding step: at least MAX_NEEDED_IDX + 1 columns, new cells missing
\* variant of the padding whose range stops one column early
PadWidthShort(ncols) == IF ncols < MAX_NEEDED_IDX THEN MAX_NEEDED_IDX ELSE ncols

PadWidth(ncols) == IF ncols <= MAX_NEEDED_IDX THEN MAX_NEEDED_IDX + 1 ELSE ncols

Letters(width) == [p \in 1..width |-> index_to_col_letter(p - 1)]

LetterToHeader(original_columns, letters) ==
    [p \in 1..Min(Len(original_columns), Len(letters)) |->
        <<index_to_col_letter(p - 1), original_columns[p]>>]

\* the frame after padding and renaming, with attrs set
Normalize(rd) ==
    LET ncols == Len(rd.columns)
        width == PadWidth(ncols)
        letters == Letters(width)
    IN [cols |-> letters,
        rows |-> [r \in 1..Len(rd.rows) |->
                    [p \in 1..width |-> IF p <= ncols THEN rd.rows[r][p] ELSE NA]],
        attrs |-> LetterToHeader(rd.columns, letters)]

\* variant of the mask that joins the two comparisons with "or"
FilterMaskEither(df) ==
    [r \in 1..Len(df.rows) |->
        \/ Column(df, FILTER_K_LETTER)[r] = StrCell(FILTER_K_VALUE)
        \/ Column(df, FILTER_M_LETTER)[r] = StrCell(FILTER_M_VALUE)]

FilterMask(df) ==
    [r \in 1..Len(df.rows) |->
        /\ Column(df, FILTER_K_LETTER)[r] = StrCell(FILTER_K_VALUE)
        /\ Column(df, FILTER_M_LETTER)[r] = StrCell(FILTER_M_VALUE)]

FilterRows(df) == TakeRows(df, FilterMask(df))

\* variant of the range walk that leaves the end letter out
RangeDropColsExclusive(df, start_letter, end_letter) ==
    LET s_idx == col_letter_to_index(start_letter)
        e_idx == col_letter_to_index(end_letter)
        span == [j \in 1..(e_idx - s_idx) |-> index_to_col_letter(s_idx + j - 1)]
    IN SelectSeq(span, LAMBDA letter : letter \in Range(df.cols))

\* the letters of one inclusive range that are columns of the frame
RangeDropCols(df, start_letter, end_letter) ==
    LET s_idx == col_letter_to_index(start_letter)
        e_idx == col_letter_to_index(end_letter)
        span == [j \in 1..(e_idx + 1 - s_idx) |-> index_to_col_letter(s_idx + j - 1)]
    IN SelectSeq(span, LAMBDA letter : letter \in Range(df.cols))

RECURSIVE DropCols(_, _)
DropCols(df, rs) ==
    IF rs = <<>> THEN <<>>
    ELSE RangeDropCols(df, rs[1][1], rs[1][2]) \o DropCols(df, Tail(rs))

\* the filter and the drop of the ranges, on the normalised frame
Transform(nf, rs) ==
    LET df == FilterRows(nf)
    IN DropColumns(df, DropCols(df, rs))

clean_with_ranges(rd, rs) == Transform(Normalize(rd), rs)

clean_csv(rd) == clean_with_ranges(rd, DROP_RANGES_LETTERS)

-----------------------------------------------------------------------------
(* Merge and sort block *)

AppendNew(cols, more) == cols \o SelectSeq(more, LAMBDA l : l \notin Range(cols))

\* the columns of pd.concat(..., sort=False): the union, in order of appearance
RECURSIVE ConcatCols(_)
ConcatCols(frames) ==
    IF frames = <<>> THEN <<>>
    ELSE AppendNew(ConcatCols(SubSeq(frames, 1, Len(frames) - 1)),
                   frames[Len(frames)].cols)

\* the rows of one frame laid out on the union of the columns
Realign(df, cols) ==
    [r \in 1..Len(df.rows) |->
        [p \in 1..Len(cols) |->
            IF cols[p] \in Range(df.cols)
            THEN df.rows[r][ColPos(df.cols, cols[p])]
            ELSE NA]]

RECURSIVE ConcatRows(_, _)
ConcatRows(frames, cols) ==
    IF frames = <<>> THEN <<>>
    ELSE Realign(frames[1], cols) \o ConcatRows(Tail(frames), cols)

Concat(frames) ==
    LET cols == ConcatCols(frames)
    IN [cols |-> cols, rows |-> ConcatRows(frames, cols), attrs |-> <<>>]

\* merged.dropna(how="all")
DropEmptyRows(df) ==
    TakeRows(df, [r \in 1..Len(df.rows) |->
                    \E p \in 1..Len(df.cols) : ~isna(df.rows[r][p])])

\* "if sort_letter not in merged.columns: merged[sort_letter] = pd.NA"
EnsureSortColumn(df) ==
    IF SORT_LETTER \in Range(df.cols) THEN df
    ELSE [df EXCEPT !.cols = @ \o <<SORT_LETTER>>,
                    !.rows = [r \in 1..Len(df.rows) |-> df.rows[r] \o <<NA>>]]

\* the strings of the model in Python's string order
StrOrder == <<"", "SOC 5", "Station", "a", "b", "s", "v">>

SortKey(c) ==
    IF c.t = "int" THEN c.n
    ELSE CHOOSE k \in 1..Len(StrOrder) : StrOrder[k] = c.s

PresentRows(df) == {r \in 1..Len(df.rows) : ~isna(Column(df, SORT_LETTER)[r])}

\* "<" is not defined between an int and a str: sort_values raises TypeError
SortRaises(df) ==
    Cardinality({Column(df, SORT_LETTER)[r].t : r \in PresentRows(df)}) > 1

RECURSIVE Perms(_)
Perms(S) ==
    IF S = {} THEN {<<>>}
    ELSE UNION {{<<x>> \o q : q \in Perms(S \ {x})} : x \in S}

\* the orders of the rows P that ascend by key; kind="quicksort" (the
\* default of sort_values) fixes no order among rows of equal key
RECURSIVE AscendingOrders(_, _)
AscendingOrders(keys, P) ==
    IF P = {} THEN {<<>>}
    ELSE LET least == CHOOSE r \in P : \A q \in P : SortKey(keys[r]) <= SortKey(keys[q])
             G == {r \in P : SortKey(keys[r]) = SortKey(keys[least])}
         IN {g \o rest : g \in Perms(G), rest \in AscendingOrders(keys, P \ G)}

Reorder(df, order) ==
    [df EXCEPT !.rows = [j \in 1..Len(order) |-> df.rows[order[j]]]]

\* sort_values(by=SORT_LETTER, na_position="last", ignore_index=True): the
\* present rows ascending, then the missing ones in their order
SortOutcomes(df) ==
    LET keys == Column(df, SORT_LETTER)
        missing == SelectSeq(Iota(Len(df.rows)), LAMBDA r : isna(keys[r]))
    IN {Reorder(df, order \o missing) : order \in AscendingOrders(keys, PresentRows(df))}

keep_cols == {FILTER_K_LETTER, FILTER_M_LETTER, SORT_LETTER}

AllMissing(df, p) == \A r \in 1..Len(df.rows) : isna(df.rows[r][p])

\* variant of the drop of the empty columns that protects no column
DropEmptyColsUnprotected(df) ==
    DropColumns(df, SelectSeq(df.cols, LAMBDA c : AllMissing(df, ColPos(df.cols, c))))

\* drop_candidates and merged.drop(columns=drop_candidates)
DropEmptyCols(df) ==
    DropColumns(df, SelectSeq(df.cols,
        LAMBDA c : c \notin keep_cols /\ AllMissing(df, ColPos(df.cols, c))))

\* merged.fillna("")
FillNa(df) ==
    [df EXCEPT !.rows = [r \in 1..Len(df.rows) |->
        [p \in 1..Len(df.cols) |->
            IF isna(df.rows[r][p]) THEN StrCell("") ELSE df.rows[r][p]]]]

\* the frame given to sort_values
PreSort(frames) == EnsureSortColumn(DropEmptyRows(Concat(frames)))

\* the frames the merge block can end with
MergeOutcomes(frames) ==
    {FillNa(DropEmptyCols(sorted)) : sorted \in SortOutcomes(PreSort(frames))}

-----------------------------------------------------------------------------
(* Header resolution of the upload block *)

\* variant of the choice of the mapping that takes the last part's
HeaderMappingLast(frames) ==
    IF frames = <<>> THEN <<>> ELSE frames[Len(frames)].attrs

\* the letter_to_header of the first part whose mapping is not empty
RECURSIVE HeaderMapping(_)
HeaderMapping(frames) ==
    IF frames = <<>> THEN <<>>
    ELSE IF frames[1].attrs # <<>> THEN frames[1].attrs
    ELSE HeaderMapping(Tail(frames))

HeaderRow(frames, df) ==
    [p \in 1..Len(df.cols) |-> DictGet(HeaderMapping(frames), df.cols[p], df.cols[p])]

-----------------------------------------------------------------------------
(* Parts of the state a behaviour does not use *)

CodecIdle ==
    /\ c_kind = "none" /\ c_letter = <<>> /\ c_index = -1
    /\ c_back_letter = <<>> /\ c_back_index = -1
    /\ c_raised = FALSE

CleanIdle ==
    /\ raw = [columns |-> <<>>, rows |-> <<>>]
    /\ ranges = <<>> /\ normalized = NoFrame /\ cleaned = NoFrame

RunIdle ==
    /\ variant = "none" /\ csv_files = <<>> /\ pc = "idle" /\ idx = 0
    /\ all_data = <<>> /\ warnings = <<>> /\ merged = NoFrame
    /\ sink = [state |-> "before", header |-> <<>>, rows |-> <<>>]
    /\ messages = <<>>

-----------------------------------------------------------------------------
(* The codec applied to bounded inputs, there and back *)

AlphaCodes == (OrdA..OrdZ) \cup (OrdLowerA..OrdLowerZ)

SeqsUpTo(S, n) == UNION {[1..k -> S] : k \in 0..n}

LetterInputs == SeqsUpTo(AlphaCodes, MaxLen) \ {<<>>}

\* some characters that are not letters: space, "1", "@" and "["
OtherCodes == {32, 49, 64, 91}

\* the empty string and the strings with a character that is not a letter
UncheckedInputs ==
    {<<>>} \cup
    {s \in SeqsUpTo(AlphaCodes \cup OtherCodes, MaxLen) :
        \E i \in 1..Len(s) : s[i] \in OtherCodes}

IndexInputs == 0..MaxIdx

CodecInit ==
    /\ step = "input"
    /\ \/ /\ c_kind = "letter" /\ c_letter \in LetterInputs /\ c_index = -1
       \/ /\ c_kind = "index" /\ c_index \in IndexInputs /\ c_letter = <<>>
       \/ /\ c_kind = "unchecked" /\ c_letter \in UncheckedInputs /\ c_index = -1
    /\ c_back_letter = <<>> /\ c_back_index = -1
    /\ c_raised = FALSE
    /\ CleanIdle /\ RunIdle

LetterToIndex ==
    /\ \/ /\ c_kind = "letter" /\ step = "input" /\ step' = "mid"
          /\ c_index' = col_letter_to_index(c_letter)
          /\ UNCHANGED c_back_index
       \/ /\ c_kind = "index" /\ step = "mid" /\ step' = "done"
          /\ c_back_index' = col_letter_to_index(c_letter)
          /\ UNCHANGED c_index
       \* the function has no check and no raise: upper() and ord() take
       \* any string, so the call returns whatever the fold gives
       \/ /\ c_kind = "unchecked" /\ step = "input" /\ step' = "done"
          /\ c_index' = col_letter_to_index(c_letter)
          /\ UNCHANGED c_back_index
    /\ c_raised' = FALSE
    /\ UNCHANGED <<c_kind, c_letter, c_back_letter, cleanVars, runVars>>

IndexToLetter ==
    /\ \/ /\ c_kind = "index" /\ step = "input" /\ step' = "mid"
          /\ c_letter' = index_to_col_letter(c_index)
          /\ UNCHANGED c_back_letter
       \/ /\ c_kind = "letter" /\ step = "mid" /\ step' = "done"
          /\ c_back_letter' = index_to_col_letter(c_index)
          /\ UNCHANGED c_letter
    /\ UNCHANGED <<c_kind, c_index, c_back_index, c_raised, cleanVars, runVars>>

CodecNext == LetterToIndex \/ IndexToLetter

SpecCodec == CodecInit /\ [][CodecNext]_vars

-----------------------------------------------------------------------------
(* clean_csv applied to bounded frames *)

\* header text of column p of the file at position f of the archive
HeaderText(f, p) == <<104, f, p>>

\* one raw row of the given width: the A, K, M and X cells and the other cells
RawRow(width, kind) ==
    [p \in 1..width |->
        IF p = 1 THEN kind.a
        ELSE IF p - 1 = FilterKIdx THEN kind.k
        ELSE IF p - 1 = FilterMIdx THEN kind.m
        ELSE IF p - 1 = SortIdx THEN kind.x
        ELSE kind.fill]

RawFrame(f, width, kinds) ==
    [columns |-> [p \in 1..width |-> HeaderText(f, p)],
     rows |-> [r \in 1..Len(kinds) |-> RawRow(width, kinds[r])]]

CleanWidths == {0, 11, 13, 34, 36}

CleanRowKinds ==
    [k : {StrCell(FILTER_K_VALUE), StrCell(FILTER_M_VALUE), NA},
     m : {StrCell(FILTER_M_VALUE), StrCell(FILTER_K_VALUE)},
     x : {IntCell(1)},
     a : {StrCell("a")},
     fill : {StrCell("v"), NA}]

CleanInputs ==
    {RawFrame(1, w, ks) : w \in CleanWidths \ {0}, ks \in SeqsUpTo(CleanRowKinds, MaxRows)}
    \cup {RawFrame(1, 0, <<>>)}

\* the configured ranges, alone, with one of them repeated, and with a range
\* that overlaps two of them (none ends beyond AH, so MAX_NEEDED_IDX stands)
RangeConfigs ==
    {DROP_RANGES_LETTERS,
     DROP_RANGES_LETTERS \o << <<(<<75>>), (<<77>>)>> >>,
     DROP_RANGES_LETTERS \o << <<(<<72>>), (<<76>>)>> >>}

CleanInit ==
    /\ step = "input"
    /\ raw \in CleanInputs
    /\ ranges \in RangeConfigs
    /\ normalized = NoFrame /\ cleaned = NoFrame
    /\ CodecIdle /\ RunIdle

NormalizeStep ==
    /\ step = "input" /\ step' = "mid"
    /\ normalized' = Normalize(raw)
    /\ UNCHANGED <<raw, ranges, cleaned, codecVars, runVars>>

TransformStep ==
    /\ step = "mid" /\ step' = "done"
    /\ cleaned' = Transform(normalized, ranges)
    /\ UNCHANGED <<raw, ranges, normalized, codecVars, runVars>>

CleanNext == NormalizeStep \/ TransformStep

SpecClean == CleanInit /\ [][CleanNext]_vars

-----------------------------------------------------------------------------
(* One run of the script over an extracted archive *)

Row(x, a, fill) ==
    [k |-> StrCell(FILTER_K_VALUE), m |-> StrCell(FILTER_M_VALUE),
     x |-> x, a |-> a, fill |-> fill]

\* a row with the two filter values swapped
RowSwapped ==
    [k |-> StrCell(FILTER_M_VALUE), m |-> StrCell(FILTER_K_VALUE),
     x |-> IntCell(1), a |-> StrCell("a"), fill |-> StrCell("v")]

File(width, kinds) == [ok |-> TRUE, width |-> width, kinds |-> kinds]

\* a file pd.read_csv raises on
Unreadable == [ok |-> FALSE, width |-> 0, kinds |-> <<>>]

\* the CSV files an archive is made of
FileSpecs ==
    { Unreadable,
      File(34, <<Row(IntCell(2), StrCell("a"), StrCell("v")), RowSwapped,
                 Row(IntCell(1), StrCell("a"), NA)>>),
      File(36, <<Row(IntCell(1), StrCell("b"), StrCell("v")),
                 Row(NA, StrCell("b"), NA)>>),
      File(13, <<Row(NA, StrCell("a"), NA), Row(NA, NA, NA)>>),
      File(34, <<Row(NA, NA, NA)>>),
      File(11, <<Row(IntCell(1), StrCell("a"), StrCell("v"))>>),
      File(34, <<Row(StrCell("s"), StrCell("a"), NA)>>) }

\* pd.read_csv on the file at position f (the headers differ per file)
read_csv(f) == RawFrame(f, csv_files[f].width, csv_files[f].kinds)

Variants == {"app", "standalone"}

SinkBefore == [state |-> "before", header |-> <<>>, rows |-> <<>>]
SinkCleared == [state |-> "cleared", header |-> <<>>, rows |-> <<>>]
SinkWritten(header, rows) == [state |-> "written", header |-> header, rows |-> rows]

RunInit ==
    /\ step = "run"
    /\ variant \in Variants
    /\ csv_files \in SeqsUpTo(FileSpecs, MaxFiles)
    /\ pc = "start" /\ idx = 0
    /\ all_data = <<>> /\ warnings = <<>> /\ merged = NoFrame
    /\ sink = SinkBefore
    /\ messages = <<>>
    /\ CodecIdle /\ CleanIdle

\* csv_files is listed; app_standalone.py returns when there is none
ListFiles ==
    /\ pc = "start"
    /\ IF variant = "standalone" /\ Len(csv_files) = 0
       THEN /\ messages' = Append(messages, "No CSV files found in the ZIP")
            /\ pc' = "done"
       ELSE /\ pc' = "loop"
            /\ UNCHANGED messages
    /\ UNCHANGED <<step, variant, csv_files, idx, all_data, warnings, merged, sink,
                   codecVars, cleanVars>>

\* variant of the loop body that stops the loop at the first failing file
ProcessFileAbort ==
    /\ pc = "loop" /\ idx < Len(csv_files)
    /\ IF csv_files[idx + 1].ok
       THEN LET df == clean_csv(read_csv(idx + 1))
            IN /\ all_data' = IF df.rows # <<>> /\ df.cols # <<>>
                               THEN Append(all_data, df) ELSE all_data
               /\ idx' = idx + 1
               /\ UNCHANGED warnings
       ELSE /\ warnings' = Append(warnings, idx + 1)
            /\ idx' = Len(csv_files)
            /\ UNCHANGED all_data
    /\ UNCHANGED <<step, variant, csv_files, pc, merged, sink, messages,
                   codecVars, cleanVars>>

\* one iteration of the per-file loop
ProcessFile ==
    /\ pc = "loop" /\ idx < Len(csv_files)
    /\ IF csv_files[idx + 1].ok
       THEN LET df == clean_csv(read_csv(idx + 1))
            IN /\ all_data' = IF df.rows # <<>> /\ df.cols # <<>>
                               THEN Append(all_data, df) ELSE all_data
               /\ UNCHANGED warnings
       ELSE /\ warnings' = Append(warnings, idx + 1)
            /\ UNCHANGED all_data
    /\ idx' = idx + 1
    /\ UNCHANGED <<step, variant, csv_files, pc, merged, sink, messages,
                   codecVars, cleanVars>>

\* "if all_data:" is false; only app_standalone.py has an else branch
NoData ==
    /\ pc = "loop" /\ idx = Len(csv_files) /\ all_data = <<>>
    /\ messages' = IF variant = "standalone"
                    THEN Append(messages, "No data was processed successfully")
                    ELSE messages
    /\ pc' = "done"
    /\ UNCHANGED <<step, variant, csv_files, idx, all_data, warnings, merged, sink,
                   codecVars, cleanVars>>

\* the merge block, from pd.concat to fillna
MergeSort ==
    /\ pc = "loop" /\ idx = Len(csv_files) /\ all_data # <<>>
    /\ ~SortRaises(PreSort(all_data))
    /\ merged' \in MergeOutcomes(all_data)
    /\ pc' = IF variant = "app" THEN "connect" ELSE "save"
    /\ UNCHANGED <<step, variant, csv_files, idx, all_data, warnings, sink, messages,
                   codecVars, cleanVars>>

\* sort_values raises; nothing catches it and the script ends
MergeRaises ==
    /\ pc = "loop" /\ idx = Len(csv_files) /\ all_data # <<>>
    /\ SortRaises(PreSort(all_data))
    /\ pc' = "crashed"
    /\ UNCHANGED <<step, variant, csv_files, idx, all_data, warnings, merged, sink,
                   messages, codecVars, cleanVars>>

UploadFailed ==
    /\ messages' = Append(messages, "Failed to upload to Google Sheets")
    /\ pc' = "done"

\* app.py: connect_gsheet returns the worksheet or raises
Connect ==
    /\ pc = "connect"
    /\ \/ pc' = "clear" /\ UNCHANGED messages
       \/ UploadFailed
    /\ UNCHANGED <<step, variant, csv_files, idx, all_data, warnings, merged, sink,
                   codecVars, cleanVars>>

\* app.py: sheet.clear() empties the worksheet or raises
Clear ==
    /\ pc = "clear"
    /\ \/ sink' = SinkCleared /\ pc' = "update" /\ UNCHANGED messages
       \/ UploadFailed /\ UNCHANGED sink
    /\ UNCHANGED <<step, variant, csv_files, idx, all_data, warnings, merged,
                   codecVars, cleanVars>>

\* app.py: the header row is resolved and sheet.update(values) writes or raises
Update ==
    /\ pc = "update"
    /\ \/ /\ sink' = SinkWritten(HeaderRow(all_data, merged), merged.rows)
          /\ messages' = Append(messages, "Data uploaded to Google Sheets successfully")
          /\ pc' = "done"
       \/ UploadFailed /\ UNCHANGED sink
    /\ UNCHANGED <<step, variant, csv_files, idx, all_data, warnings, merged,
                   codecVars, cleanVars>>

\* app_standalone.py: merged.to_csv(output_file, index=False) and the summary
SaveCsv ==
    /\ pc = "save"
    /\ sink' = SinkWritten(merged.cols, merged.rows)
    /\ messages' = Append(messages, "Success")
    /\ pc' = "done"
    /\ UNCHANGED <<step, variant, csv_files, idx, all_data, warnings, merged,
                   codecVars, cleanVars>>

Next ==
    \/ ListFiles \/ ProcessFile \/ NoData \/ MergeSort \/ MergeRaises
    \/ Connect \/ Clear \/ Update \/ SaveCsv

Init == RunInit

Spec == Init /\ [][Next]_vars

-----------------------------------------------------------------------------
(* Properties of the codec *)

\* C5: the codec round-trips in both directions: converting a non-empty
\* letter string over A-Z/a-z to an index and back gives the string in upper
\* case, converting an index >= 0 to a letter and back gives the index, and
\* A=0, Z=25, AA=26, ZZ=701, AAA=702.
C5_RoundTrip ==
    /\ (c_kind = "letter" /\ step = "done") => c_back_letter = Upper(c_letter)
    /\ (c_kind = "index" /\ step = "done") => c_back_index = c_index
    /\ (c_kind = "letter" /\ step # "input") =>
          /\ Upper(c_letter) = <<65>> => c_index = 0
          /\ Upper(c_letter) = <<90>> => c_index = 25
          /\ Upper(c_letter) = <<65, 65>> => c_index = 26
          /\ Upper(c_letter) = <<90, 90>> => c_index = 701
    /\ (c_kind = "index" /\ step # "input" /\ c_index = 702) =>
          c_letter = <<65, 65, 65>>

\* the round trip of "zz": index 701, back to "ZZ"
C5_Witness ==
    /\ c_kind = "letter" /\ step = "done"
    /\ c_letter = <<122, 122>> /\ c_index = 701 /\ c_back_letter = <<90, 90>>

\* C11: col_letter_to_index fails with InvalidLetterFormat, returning no
\* index, whenever its argument is the empty string or has a character that
\* is not a letter.
C11_InvalidLetterRejected ==
    (c_kind = "unchecked" /\ step = "done") => c_raised

\* what the function does on such arguments: it returns the fold, -1 for
\* the empty string and for "A1" the index 10 of column K
C11_Returned ==
    (c_kind = "unchecked" /\ step = "done") =>
        /\ ~c_raised
        /\ c_index = LetterFold(Upper(c_letter), 0) - 1
        /\ c_letter = <<>> => c_index = -1
        /\ c_letter = <<65, 49>> => c_index = FilterKIdx

-----------------------------------------------------------------------------
(* Properties of clean_csv *)

\* the cell of a raw row at a 0-based column index, missing beyond its width
RawCell(row, i) == IF i + 1 <= Len(row) THEN row[i + 1] ELSE NA

PassesFilter(row) ==
    /\ RawCell(row, FilterKIdx) = StrCell("Station")
    /\ RawCell(row, FilterMIdx) = StrCell("SOC 5")

PassingRows == SelectSeq(raw.rows, PassesFilter)

\* C7: clean_csv keeps exactly the rows whose K cell is "Station" and whose
\* M cell is "SOC 5" (a missing cell never matches), in their input order;
\* the result may have zero rows.
C7_FilterExact ==
    step = "done" =>
        /\ Len(cleaned.rows) = Len(PassingRows)
        /\ \A j \in 1..Len(cleaned.rows) : \A c \in 1..Len(cleaned.cols) :
              cleaned.rows[j][c] =
                  RawCell(PassingRows[j], col_letter_to_index(cleaned.cols[c]))

\* of two rows the first has the two values swapped and is dropped, the
\* second passes and is kept
C7_Witness ==
    /\ step = "done" /\ Len(raw.columns) = 13 /\ Len(raw.rows) = 2
    /\ raw.rows[1][11] = StrCell("SOC 5") /\ raw.rows[1][13] = StrCell("Station")
    /\ PassesFilter(raw.rows[2])
    /\ Len(cleaned.rows) = 1

InRanges(i, rs) ==
    \E r \in 1..Len(rs) :
        /\ col_letter_to_index(rs[r][1]) <= i
        /\ i <= col_letter_to_index(rs[r][2])

\* C8: the frame returned by clean_csv has no column whose letter lies in
\* an inclusive drop range, keeps every other normalised column under its
\* letter and in its order, and a repeated or overlapping range changes
\* nothing beyond the union of the ranges.
C8_DropRanges ==
    step = "done" =>
        /\ cleaned.cols =
              SelectSeq(normalized.cols,
                        LAMBDA l : ~InRanges(col_letter_to_index(l), ranges))
        /\ \A k \in 1..Len(ranges) :
              Transform(normalized, ranges \o <<ranges[k]>>) = cleaned
        /\ ranges = DROP_RANGES_LETTERS \o << <<(<<75>>), (<<77>>)>> >> =>
              cleaned = Transform(normalized, DROP_RANGES_LETTERS)

\* a 36-column frame under the overlapping range H-L: J is gone, AI and AJ stay
C8_Witness ==
    /\ step = "done" /\ Len(raw.columns) = 36 /\ Len(cleaned.rows) = 2
    /\ ranges = DROP_RANGES_LETTERS \o << <<(<<72>>), (<<76>>)>> >>
    /\ <<74>> \notin Range(cleaned.cols)
    /\ <<65, 73>> \in Range(cleaned.cols) /\ <<65, 74>> \in Range(cleaned.cols)

\* C9: normalisation yields at least MAX_NEEDED_IDX + 1 columns, column i
\* labelled index_to_col_letter(i); the original cells are kept, every padded
\* column is entirely missing, and letter_to_header has an entry for letter i
\* exactly when i is below the original column count, the header at i.
C9_Normalize ==
    step # "input" =>
        LET n == Len(raw.columns)
            width == Len(normalized.cols)
        IN /\ MAX_NEEDED_IDX = col_letter_to_index(<<65, 72>>)
           /\ width >= MAX_NEEDED_IDX + 1
           /\ width = IF n > MAX_NEEDED_IDX + 1 THEN n ELSE MAX_NEEDED_IDX + 1
           /\ \A i \in 0..(width - 1) : normalized.cols[i + 1] = index_to_col_letter(i)
           /\ Len(normalized.rows) = Len(raw.rows)
           /\ \A r \in 1..Len(normalized.rows) :
                 /\ Len(normalized.rows[r]) = width
                 /\ \A p \in 1..width :
                       IF p <= n THEN normalized.rows[r][p] = raw.rows[r][p]
                       ELSE isna(normalized.rows[r][p])
           /\ DictKeys(normalized.attrs) = {index_to_col_letter(i) : i \in 0..(n - 1)}
           /\ \A i \in 0..(n - 1) :
                 DictGet(normalized.attrs, index_to_col_letter(i), <<>>) = raw.columns[i + 1]

\* an 11-column frame of two rows padded to 34 columns, 11 headers recorded
C9_Witness ==
    /\ step = "mid" /\ Len(raw.columns) = 11 /\ Len(raw.rows) = 2
    /\ raw.rows[1][2] = StrCell("v")
    /\ Len(normalized.cols) = 34 /\ Len(normalized.attrs) = 11

-----------------------------------------------------------------------------
(* Properties of a run *)

Merged == merged # NoFrame

\* r comes before q in the stable ascending order with the missing keys last
Before(keys, r, q) ==
    IF isna(keys[r]) THEN isna(keys[q]) /\ r < q
    ELSE \/ isna(keys[q])
         \/ SortKey(keys[r]) < SortKey(keys[q])
         \/ SortKey(keys[r]) = SortKey(keys[q]) /\ r < q

RECURSIVE StableOrder(_, _)
StableOrder(keys, P) ==
    IF P = {} THEN <<>>
    ELSE LET first == CHOOSE r \in P : \A q \in P \ {r} : Before(keys, r, q)
         IN <<first>> \o StableOrder(keys, P \ {first})

\* the merged frame a stable sort gives
StableMerged ==
    LET pre == PreSort(all_data)
        order == StableOrder(Column(pre, SORT_LETTER), 1..Len(pre.rows))
    IN FillNa(DropEmptyCols(Reorder(pre, order)))

\* the X cells of the merged frame (a missing cell has become "")
MergedKeys == Column(merged, SORT_LETTER)

\* the merged rows ascend by X and the rows without X come last
MergedAscendingMissingLast ==
    Merged =>
        \A i, j \in 1..Len(merged.rows) :
            i < j =>
                \/ MergedKeys[j] = StrCell("")
                \/ /\ MergedKeys[i] # StrCell("")
                   /\ SortKey(MergedKeys[i]) <= SortKey(MergedKeys[j])

\* C1: after the merge the rows ascend by X, every row without an X value
\* comes after every row with one, and rows of equal X keep the relative
\* order they had in the concatenation of the per-file frames.
C1_SortedStable ==
    Merged => MergedAscendingMissingLast /\ merged = StableMerged

RunFailed ==
    \/ pc = "crashed"
    \/ pc = "done" /\ "Failed to upload to Google Sheets" \in Range(messages)

\* C3: if the merge, the sort or the publication fails, the sink is exactly
\* as it was before the run or holds the complete final table, never a
\* cleared or partly written state.
C3_Atomic ==
    RunFailed =>
        \/ sink = SinkBefore
        \/ sink.state = "written" /\ sink.rows = merged.rows

\* the file at position f is read and has a row that passes the filter
HasPassingRow(f) ==
    /\ csv_files[f].ok
    /\ LET rows == read_csv(f).rows
       IN \E r \in 1..Len(rows) : PassesFilter(rows[r])

\* df is the cleaned frame of the file at position f: it carries the headers
\* of that file and its rows are that file's passing rows, in order
IsFrameOfFile(df, f) ==
    LET passing == SelectSeq(read_csv(f).rows, PassesFilter)
    IN /\ Len(df.attrs) = csv_files[f].width
       /\ \A p \in 1..Len(df.attrs) : df.attrs[p][2] = HeaderText(f, p)
       /\ Len(df.rows) = Len(passing)
       /\ \A j \in 1..Len(df.rows) : \A c \in 1..Len(df.cols) :
             df.rows[j][c] = RawCell(passing[j], col_letter_to_index(df.cols[c]))

\* C4: a file that fails to read is skipped with a warning, every other
\* file is still processed, and the frames given to the merge are those of
\* the readable files with a row left after the filter, in processing order.
C4_Isolation ==
    LET good == SelectSeq(Iota(idx), HasPassingRow)
    IN /\ Len(all_data) = Len(good)
       /\ \A j \in 1..Len(good) : IsFrameOfFile(all_data[j], good[j])
       /\ warnings = SelectSeq(Iota(idx), LAMBDA f : ~csv_files[f].ok)
       /\ (pc \notin {"start", "loop"} /\ csv_files # <<>>) => idx = Len(csv_files)

\* three files, the second unreadable: one warning, the other two merged
C4_Witness ==
    /\ Merged /\ Len(csv_files) = 3 /\ ~csv_files[2].ok
    /\ warnings = <<2>> /\ Len(all_data) = 2

\* the position of the first file whose cleaned frame is not empty
FirstNonEmpty == CHOOSE f \in 1..Len(csv_files) :
    HasPassingRow(f) /\ \A g \in 1..(f - 1) : ~HasPassingRow(g)

\* the header of a letter under the map of the first non-empty file
ResolvedHeader(letter) ==
    IF col_letter_to_index(letter) < csv_files[FirstNonEmpty].width
    THEN HeaderText(FirstNonEmpty, col_letter_to_index(letter) + 1)
    ELSE letter

C10_NoDataTerminal ==
    (pc = "done" /\ all_data = <<>>) =>
        /\ sink = SinkBefore /\ merged = NoFrame
        /\ messages # <<>>

====
